---- MODULE Spec2Model ----
(***************************************************************************)
(* Arbitrage execution and risk engine of polyarb-dashboard.               *)
(*                                                                         *)
(*   backend/python/app.py            risk state, adaptive sizing, submit  *)
(*   backend/python/order_manager.py  dual-leg execution, fill monitoring, *)
(*                                    mitigation, position validation      *)
(*                                                                         *)
(* Eight specifications share the definitions below.                       *)
(*   Spec      one call of OrderManager.execute_arbitrage after another,   *)
(*             stepped exchange call by exchange call.                     *)
(*   SpecRisk  concurrent calls of execute_arbitrage_opportunity and       *)
(*             get_adaptive_position_size over the shared risk_state; the  *)
(*             executor's return value is drawn from ExecutionOutcomes.    *)
(*   SpecLoad  more concurrent calls of execute_arbitrage_opportunity than *)
(*             max_concurrent_executions, from a fresh process.            *)
(*   SpecLive  Spec with the clock of monitor_fills advancing (fairness).  *)
(*   SpecSeq   calls of execute_arbitrage_opportunity one at a time, from  *)
(*             an execution_history at or just below max_history.          *)
(*   SpecRace  concurrent calls with the recording of an outcome in        *)
(*             risk_state taken read by read and write by write.           *)
(*   SpecWarm  calls of execute_arbitrage_opportunity one at a time, from  *)
(*             an execution_history shorter than scaling_window.           *)
(*   SpecFull  one call of execute_arbitrage_opportunity followed through  *)
(*             OrderManager.execute_arbitrage, risk state and position     *)
(*             records together.                                           *)
(*                                                                         *)
(* Python floats are modelled as exact rationals <<numerator, denominator>>*)
(* in lowest terms with a positive denominator.                            *)
(***************************************************************************)
EXTENDS Integers, Sequences, FiniteSets, TLC

\* ------------------------------------------------------------------------
\* Rational arithmetic (the float operations of app.py and order_manager.py)
\* ------------------------------------------------------------------------

Abs(x) == IF x < 0 THEN 0 - x ELSE x

RECURSIVE GCD(_, _)
GCD(a, b) == IF b = 0 THEN a ELSE GCD(b, a % b)

Norm(n, d) ==
    LET g == GCD(Abs(n), d)
    IN  IF n = 0 THEN <<0, 1>> ELSE <<n \div g, d \div g>>

R(n) == <<n, 1>>

RAdd(a, b) == Norm(a[1] * b[2] + b[1] * a[2], a[2] * b[2])

RSub(a, b) == Norm(a[1] * b[2] - b[1] * a[2], a[2] * b[2])

RNeg(a) == <<0 - a[1], a[2]>>

RMul(a, b) == Norm(a[1] * b[1], a[2] * b[2])

\* Division by a positive rational.
RDiv(a, b) == Norm(a[1] * b[2], a[2] * b[1])

RLe(a, b) == a[1] * b[2] <= b[1] * a[2]

RLt(a, b) == a[1] * b[2] < b[1] * a[2]

\* Python's min(a, b) and max(a, b).
RMin(a, b) == IF RLt(b, a) THEN b ELSE a

RMax(a, b) == IF RLt(a, b) THEN b ELSE a

\* Python's round(x, 2): to the nearest hundredth, ties to the even one.
Round2(a) ==
    LET s == 100 * a[1]
        q == s \div a[2]
        r == s % a[2]
        up == \/ 2 * r > a[2]
              \/ 2 * r = a[2] /\ q % 2 = 1
    IN  Norm(IF up THEN q + 1 ELSE q, 100)

\* ------------------------------------------------------------------------
\* BotConfig (app.py)
\* ------------------------------------------------------------------------

max_concurrent_executions == 3

initial_position_size == R(10)

scaling_factor == <<3, 2>>

max_scaling_size == R(100)

min_success_rate == <<4, 5>>

scaling_window == 10

emergency_stop_loss == R(0 - 50)

\* ------------------------------------------------------------------------
\* Bounds of the model
\* ------------------------------------------------------------------------

\* Submissions (calls of execute_arbitrage_opportunity) made in a run of
\* SpecRisk, over and above the executions already in the initial history.
MaxExecs == 2

Execs == 1..MaxExecs

\* Submissions made in a run of SpecLoad beyond max_concurrent_executions.
MaxExtra == 1

LoadExecs == 1..(max_concurrent_executions + MaxExtra)

Slots == Execs \cup LoadExecs

\* The absent optional argument position_size=None.
NoneR == <<>>

\* position_size arguments a caller passes.
Overrides == {NoneR, R(0), R(100)}

\* ------------------------------------------------------------------------
\* Status enumerations
\* ------------------------------------------------------------------------

\* order_manager.FillStatus
BOTH_FILLED == "both_filled"

ONE_FILLED == "one_filled"

NONE_FILLED == "none_filled"

TIMEOUT == "timeout"

FillStatus == {BOTH_FILLED, ONE_FILLED, NONE_FILLED, TIMEOUT}

\* app.ExecutionStatus
ES_BOTH_FILLED == "BOTH_FILLED"

ES_PARTIAL_FILL == "PARTIAL_FILL"

ES_FAILED == "FAILED"

VARIABLES
    risk_state,         \* app.risk_state
    execution_counter,  \* app.execution_counter
    execution_logs,     \* app.execution_logs, newest first
    submission,         \* per call of execute_arbitrage_opportunity
    last_return,        \* history: what the call returning in this step gave back
    last_sizing,        \* history: the get_adaptive_position_size call of this step
    stop_seen,          \* history: daily_pnl <= emergency_stop_loss has held
    active_positions,   \* PositionValidator.active_positions
    ex,                 \* the running (or last returned) call of execute_arbitrage
    placed,             \* order ids the exchange accepted in that call
    cancelled,          \* order ids the exchange cancelled in that call
    calls               \* calls of execute_arbitrage made so far

riskVars == <<risk_state, execution_counter, execution_logs, submission,
              last_return, last_sizing, stop_seen>>

execVars == <<active_positions, ex, placed, cancelled, calls>>

vars == <<riskVars, execVars>>

\* ------------------------------------------------------------------------
\* RiskManager: get_adaptive_position_size and the outcome record (app.py)
\* ------------------------------------------------------------------------

R0 == R(0)

\* A call's result: the risk state it leaves and the value it returns.
SizingResult(rs, ret) == [rs |-> rs, ret |-> ret]

\* A stop that also starts the day's accounts afresh.
EmergencyStopResetting(rs) ==
    SizingResult([rs EXCEPT !.trading_enabled = FALSE, !.daily_pnl = R0,
                            !.execution_history = <<>>], R0)

\* if daily_pnl <= emergency_stop_loss: trading_enabled = False; return 0.0
EmergencyStop(rs) == SizingResult([rs EXCEPT !.trading_enabled = FALSE], R0)

\* recent_executions = execution_history[-scaling_window:]
RecentExecutions(history) ==
    IF Len(history) <= scaling_window THEN history
    ELSE SubSeq(history, Len(history) - scaling_window + 1, Len(history))

\* successful_executions / len(recent_executions)
SuccessRate(history) ==
    LET recent == RecentExecutions(history)
        successful == Cardinality({i \in 1..Len(recent) :
                                       recent[i].status = ES_BOTH_FILLED})
    IN  Norm(successful, Len(recent))

ScaleUpUnclamped(size) == RMul(size, scaling_factor)

\* new_size = min(size * scaling_factor, max_scaling_size), taken if larger
ScaleUp(size) ==
    LET new_size == RMin(RMul(size, scaling_factor), max_scaling_size)
    IN  IF RLt(size, new_size) THEN new_size ELSE size

\* A scale-down with no floor.
ScaleDownUnfloored(size) == RDiv(size, scaling_factor)

\* new_size = max(size / scaling_factor, initial_position_size), taken if smaller
ScaleDown(size) ==
    LET new_size == RMax(RDiv(size, scaling_factor), initial_position_size)
    IN  IF RLt(new_size, size) THEN new_size ELSE size

\* A warm-up that ends one outcome early.
WarmingUpShort(history) == Len(history) < scaling_window - 1

\* if len(risk_state["execution_history"]) < BOT_CONFIG.scaling_window
WarmingUp(history) == Len(history) < scaling_window

get_adaptive_position_size(rs) ==
    IF RLe(rs.daily_pnl, emergency_stop_loss) THEN EmergencyStop(rs)
    ELSE IF WarmingUp(rs.execution_history)
         THEN SizingResult(rs, rs.current_position_size)
    ELSE LET size == rs.current_position_size
             scaled == IF RLe(min_success_rate, SuccessRate(rs.execution_history))
                       THEN ScaleUp(size)
                       ELSE ScaleDown(size)
         IN  SizingResult([rs EXCEPT !.current_position_size = scaled], scaled)

\* Keeps the oldest max_history entries instead of the newest.
TrimHistoryOldest(history) ==
    IF Len(history) > scaling_window * 2
    THEN SubSeq(history, 1, scaling_window * 2)
    ELSE history

\* max_history = scaling_window * 2; execution_history[-max_history:]
TrimHistory(history) ==
    IF Len(history) > scaling_window * 2
    THEN SubSeq(history, Len(history) - scaling_window * 2 + 1, Len(history))
    ELSE history

\* The dict appended to execution_history: its "status" and "pnl". The
\* fields no code reads back (id, timestamp, market_id, position_size,
\* execution_time) are left out.
HistoryEntry(status, pnl) == [status |-> status, pnl |-> pnl]

RecordOutcomeRecovering(rs, status, pnl) ==
    [rs EXCEPT
        !.execution_history = TrimHistory(Append(@, HistoryEntry(status, pnl))),
        !.daily_pnl = RAdd(@, pnl),
        !.trading_enabled = ~RLe(RAdd(rs.daily_pnl, pnl), emergency_stop_loss)]

\* execution_history.append(...); daily_pnl += pnl; trim to max_history
RecordOutcome(rs, status, pnl) ==
    [rs EXCEPT
        !.execution_history = TrimHistory(Append(@, HistoryEntry(status, pnl))),
        !.daily_pnl = RAdd(@, pnl)]

\* ------------------------------------------------------------------------
\* What OrderManager.execute_arbitrage returns (order_manager.py)
\* ------------------------------------------------------------------------

\* A fallback that books no loss.
assumed_nothing == <<0, 1>>

\* return -0.01, "... small controlled loss assumed"
assumed_loss == <<0 - 1, 100>>

\* The loss itself, returned without the sign.
exit_loss(price, exit_price, size) == RMul(RSub(price, exit_price), size)

\* loss = (order.price - exit_price) * order.size; return -loss
exit_pnl(price, exit_price, size) == RNeg(RMul(RSub(price, exit_price), size))

\* Best bids the exchange quotes for a filled leg.
Bids == {<<1, 10>>, <<3, 5>>, <<7, 10>>}

\* Opportunities handed to the coordinator (the feed's yesAsk / noAsk).
Opps == {[market_id |-> "m1", yes_ask |-> <<3, 5>>, no_ask |-> <<3, 10>>]}

\* (fill_status, pnl) pairs execute_arbitrage returns for one call: both
\* legs filled, neither filled, an exception, and YES alone filled with the
\* retry filling, the YES book failing, or YES exited at a bid of Bids.
ExecutionOutcomes(opp, size) ==
    {[fill_status |-> fs, pnl |-> R0] : fs \in {BOTH_FILLED, TIMEOUT, NONE_FILLED}}
    \cup
    {[fill_status |-> ONE_FILLED, pnl |-> p] :
        p \in {R0, assumed_loss}
              \cup {exit_pnl(opp.yes_ask, b, size) : b \in Bids}}

\* "Convert to legacy format": FillStatus -> ExecutionStatus
LegacyStatus(fs) ==
    IF fs = BOTH_FILLED THEN ES_BOTH_FILLED
    ELSE IF fs = ONE_FILLED THEN ES_PARTIAL_FILL
    ELSE ES_FAILED

\* ------------------------------------------------------------------------
\* ExecutionCoordinator: execute_arbitrage_opportunity (app.py)
\* ------------------------------------------------------------------------

\* The dict returned when risk_state["trading_enabled"] is false.
RejectDisabled ==
    [status |-> ES_FAILED, pnl |-> R0,
     details |-> "Trading disabled by risk management"]

\* The dict returned when position_size <= 0.
RejectZeroSize ==
    [status |-> ES_FAILED, pnl |-> R0,
     details |-> "Position size is 0 (risk management)"]

\* The ExecutionResult built from the executor's return value.
ExecutionResult(out) ==
    [status |-> LegacyStatus(out.fill_status), pnl |-> out.pnl,
     details |-> "execution.notes"]

\* A ledger record that cuts the pnl to whole dollars.
LogEntryWholeDollars(status, pnl) ==
    [status |-> status, pnl |-> R(Round2(pnl)[1] \div Round2(pnl)[2])]

\* log_entry: "status": status.value, "pnl": round(pnl, 2)
LogEntry(status, pnl) == [status |-> status, pnl |-> Round2(pnl)]

\* if position_size is None: position_size = get_adaptive_position_size()
ResolveSize(rs, ps) ==
    IF ps = NoneR THEN get_adaptive_position_size(rs) ELSE SizingResult(rs, ps)

\* A call of execute_arbitrage_opportunity: where it is, its opportunity, the
\* size it resolved, (history) whether daily_pnl <= emergency_stop_loss
\* held when it was called, and its locals while it records the outcome:
\* status, pnl and details, and the value of risk_state["daily_pnl"] it has
\* read for "+=".
IdleSubmission ==
    [pc |-> "idle", opp |-> CHOOSE o \in Opps : TRUE,
     position_size |-> R0, stop_at_call |-> FALSE,
     result |-> [status |-> "", pnl |-> R0, details |-> ""],
     loaded |-> R0]

ReturnedSubmission == [IdleSubmission EXCEPT !.pc = "returned"]

\* What the call that returns in the step just taken gave back (NoReturn
\* after a step in which none returns), with (history) the size it resolved
\* (NoneR when it resolved none), the value of trading_enabled when it was
\* called and when its gate had run, whether daily_pnl <= emergency_stop_loss
\* held when it was called, and whether it got as far as
\* order_manager.execute_arbitrage (the exchange).
Returned(res, size, enabled_at_call, stop_at_call, enabled_after, contacted) ==
    [returned |-> TRUE, result |-> res, size |-> size,
     enabled_at_call |-> enabled_at_call, stop_at_call |-> stop_at_call,
     enabled_after |-> enabled_after, contacted |-> contacted]

NoReturn ==
    [returned |-> FALSE, result |-> [status |-> "", pnl |-> R0, details |-> ""],
     size |-> NoneR, enabled_at_call |-> TRUE, stop_at_call |-> FALSE,
     enabled_after |-> TRUE, contacted |-> FALSE]

\* Executions inside order_manager.execute_arbitrage.
InFlight == {e \in Slots : submission[e].pc = "executing"}

\* Slots are used in order: which slot a call takes makes no difference.
NextSlot(e) ==
    /\ submission[e].pc = "idle"
    /\ \A f \in Slots : f < e => submission[f].pc # "idle"

StopLossHit(rs) == RLe(rs.daily_pnl, emergency_stop_loss)

NoteStop(rs) == stop_seen \/ StopLossHit(rs)

\* History of the call of get_adaptive_position_size made in the step just
\* taken (NoSizing after a step that makes none): what it returned, and
\* whether daily_pnl had been at or below emergency_stop_loss by then.
NoSizing == [called |-> FALSE, ret |-> R0, after_stop |-> FALSE]

NoteSizing(rs, r) ==
    [called |-> TRUE, ret |-> r.ret, after_stop |-> NoteStop(rs)]

\* A direct call of get_adaptive_position_size().
CallSizing ==
    LET r == get_adaptive_position_size(risk_state)
    IN  /\ risk_state' = r.rs
        /\ last_sizing' = NoteSizing(risk_state, r)
        /\ stop_seen' = NoteStop(r.rs)
        /\ last_return' = NoReturn
        /\ UNCHANGED <<execution_counter, execution_logs, submission, execVars>>

\* Whether the gate lets the call through to the executor, given the size
\* it resolved: "if position_size <= 0: return {...FAILED...}".
DispatchesUnchecked(size) == TRUE

Dispatches(size) == ~RLe(size, R0)

\* execute_arbitrage_opportunity, trading disabled: returns at once.
SubmitDisabled(e, opp, ps) ==
    /\ NextSlot(e)
    /\ ~risk_state.trading_enabled
    /\ submission' = [submission EXCEPT ![e] = ReturnedSubmission]
    /\ last_return' = Returned(RejectDisabled, NoneR, risk_state.trading_enabled,
                               StopLossHit(risk_state),
                               risk_state.trading_enabled, FALSE)
    /\ last_sizing' = NoSizing
    /\ UNCHANGED <<risk_state, execution_counter, execution_logs, stop_seen,
                 execVars>>

\* execute_arbitrage_opportunity, resolved position_size <= 0: returns.
SubmitZeroSize(e, opp, ps) ==
    LET r == ResolveSize(risk_state, ps)
    IN  /\ NextSlot(e)
        /\ risk_state.trading_enabled
        /\ ~Dispatches(r.ret)
        /\ risk_state' = r.rs
        /\ last_sizing' = IF ps = NoneR THEN NoteSizing(risk_state, r)
                          ELSE NoSizing
        /\ submission' = [submission EXCEPT ![e] = ReturnedSubmission]
        /\ last_return' = Returned(RejectZeroSize, r.ret,
                                   risk_state.trading_enabled,
                                   StopLossHit(risk_state),
                                   r.rs.trading_enabled, FALSE)
        /\ stop_seen' = NoteStop(r.rs)
        /\ UNCHANGED <<execution_counter, execution_logs, execVars>>

\* execute_arbitrage_opportunity up to the call of
\* order_manager.execute_arbitrage: the submission is dispatched.
SubmitDispatchRisk(e, opp, ps) ==
    LET r == ResolveSize(risk_state, ps)
    IN  /\ NextSlot(e)
        /\ risk_state.trading_enabled
        /\ Dispatches(r.ret)
        /\ risk_state' = r.rs
        /\ last_sizing' = IF ps = NoneR THEN NoteSizing(risk_state, r)
                          ELSE NoSizing
        /\ execution_counter' = execution_counter + 1
        /\ submission' = [submission EXCEPT ![e] =
               [IdleSubmission EXCEPT
                    !.pc = "executing", !.opp = opp, !.position_size = r.ret,
                    !.stop_at_call = StopLossHit(risk_state)]]
        /\ stop_seen' = NoteStop(r.rs)
        /\ last_return' = NoReturn
        /\ UNCHANGED execution_logs

\* The same with the executor summarised: its state is not looked at.
SubmitDispatch(e, opp, ps) ==
    /\ SubmitDispatchRisk(e, opp, ps)
    /\ UNCHANGED execVars

\* order_manager.execute_arbitrage returns `out`; the outcome is recorded in
\* risk_state and the ledger and the ExecutionResult is returned.
ReturnRisk(e, out) ==
    LET sub == submission[e]
        res == ExecutionResult(out)
        rs  == RecordOutcome(risk_state, res.status, res.pnl)
    IN  /\ sub.pc = "executing"
        /\ risk_state' = rs
        /\ execution_logs' = <<LogEntry(res.status, res.pnl)>> \o execution_logs
        /\ submission' = [submission EXCEPT ![e] = ReturnedSubmission]
        /\ last_return' = Returned(res, sub.position_size, TRUE,
                                   sub.stop_at_call, rs.trading_enabled, TRUE)
        /\ last_sizing' = NoSizing
        /\ stop_seen' = NoteStop(rs)
        /\ UNCHANGED execution_counter

\* The same with the executor summarised: `out` is one of
\* ExecutionOutcomes.
Return(e, out) ==
    /\ submission[e].pc = "executing"
    /\ out \in ExecutionOutcomes(submission[e].opp, submission[e].position_size)
    /\ ReturnRisk(e, out)
    /\ UNCHANGED execVars

\* The same recording as the threads of concurrent calls can interleave it:
\* nothing serialises lines 651-671, and risk_state["daily_pnl"] += pnl is a
\* read of the dict entry, an addition and a write of the dict entry.

\* order_manager.execute_arbitrage returns `out`; the outcome is converted
\* and appended to execution_history (list.append is one step).
RecordAppend(e, out) ==
    LET sub == submission[e]
        res == ExecutionResult(out)
    IN  /\ sub.pc = "executing"
        /\ out \in ExecutionOutcomes(sub.opp, sub.position_size)
        /\ risk_state' = [risk_state EXCEPT !.execution_history =
               Append(@, HistoryEntry(res.status, res.pnl))]
        /\ submission' = [submission EXCEPT ![e] =
               [sub EXCEPT !.pc = "appended", !.result = res]]
        /\ last_return' = NoReturn
        /\ last_sizing' = NoSizing
        /\ UNCHANGED <<execution_counter, execution_logs, stop_seen, execVars>>

\* The read of risk_state["daily_pnl"] for "+=".
RecordLoad(e) ==
    LET sub == submission[e]
    IN  /\ sub.pc = "appended"
        /\ submission' = [submission EXCEPT ![e] =
               [sub EXCEPT !.pc = "loaded", !.loaded = risk_state.daily_pnl]]
        /\ last_return' = NoReturn
        /\ last_sizing' = NoSizing
        /\ UNCHANGED <<risk_state, execution_counter, execution_logs, stop_seen,
                       execVars>>

\* The addition and the write of risk_state["daily_pnl"], then the trim of
\* execution_history, the ledger record and the return.
RecordStore(e) ==
    LET sub == submission[e]
        res == sub.result
        rs  == [risk_state EXCEPT
                   !.daily_pnl = RAdd(sub.loaded, res.pnl),
                   !.execution_history = TrimHistory(@)]
    IN  /\ sub.pc = "loaded"
        /\ risk_state' = rs
        /\ execution_logs' = <<LogEntry(res.status, res.pnl)>> \o execution_logs
        /\ submission' = [submission EXCEPT ![e] = ReturnedSubmission]
        /\ last_return' = Returned(res, sub.position_size, TRUE,
                                   sub.stop_at_call, rs.trading_enabled, TRUE)
        /\ last_sizing' = NoSizing
        /\ stop_seen' = NoteStop(rs)
        /\ UNCHANGED <<execution_counter, execVars>>

\* ------------------------------------------------------------------------
\* OrderInfo, ArbitrageExecution and the exchange (order_manager.py)
\* ------------------------------------------------------------------------

\* order_manager.OrderStatus
PENDING == "pending"

PARTIAL_FILL == "partial_fill"

FILLED == "filled"

CANCELLED == "cancelled"

\* Calls of execute_arbitrage made in a run of Spec.
MaxCalls == 2

\* Direct calls of validate_arbitrage_position made after a call returned.
MaxRevalidations == 2

\* max_wait_time and the retry's 10 seconds, in poll intervals.
MaxWait == 2

RetryWait == 1

Markets == {"m1", "m2"}

\* yes_price / no_price arguments of execute_arbitrage.
Quotes == {[yes_ask |-> o.yes_ask, no_ask |-> o.no_ask] : o \in Opps}

\* position_size arguments of execute_arbitrage.
ExecSizes == {initial_position_size}

\* Best asks the exchange quotes for the unfilled leg.
Asks == {<<3, 10>>, <<7, 10>>}

NoToken == <<"", "">>

TokenOf(leg, market_id) == <<leg, market_id>>

\* An ArbitrageExecution's yes_order / no_order before it is set (None).
NoOrder ==
    [order_id |-> 0, token_id |-> NoToken, side |-> "", size |-> R0,
     price |-> R0, status |-> "unset", filled_size |-> R0, remaining_size |-> R0]

\* OrderInfo(order_id, token_id, side=BUY, size, price): status PENDING.
OrderInfo(order_id, token_id, size, price) ==
    [order_id |-> order_id, token_id |-> token_id, side |-> "BUY", size |-> size,
     price |-> price, status |-> PENDING, filled_size |-> R0, remaining_size |-> R0]

\* What get_order_status returns: the venue's figures, or on an exception
\* the dict with status "error" and zero sizes.
StatusError == [status |-> "error", filled_size |-> R0, remaining_size |-> R0]

StatusResponses(size) ==
    {[status |-> "open", filled_size |-> f,
      remaining_size |-> RMax(RSub(size, f), R0)] :
        f \in {R0, RDiv(size, R(2)), size, RAdd(size, R(1))}}
    \cup {StatusError}

\* What get_order_book gives for one side: a best price, an empty side, or
\* an exception.
BookEmpty == <<0, 0>>

BookRaises == <<0 - 1, 0>>

\* get_order_book was not called.
BookUnread == <<0 - 2, 0>>

\* monitor_fills, one leg of one round: the order after the status query.
PollLeg(order, resp) ==
    [order EXCEPT
        !.filled_size = resp.filled_size,
        !.remaining_size = resp.remaining_size,
        !.status = IF resp.filled_size = order.size THEN FILLED
                   ELSE IF RLt(R0, resp.filled_size) THEN PARTIAL_FILL
                   ELSE @]

\* if status["filled_size"] == order.size: <leg>_filled = True
SeenFilled(order, resp) == resp.filled_size = order.size

\* A completion test met by one filled leg.
OneSeenFilled(yes_filled, no_filled) == yes_filled \/ no_filled

\* if yes_filled and no_filled: return FillStatus.BOTH_FILLED
BothSeenFilled(yes_filled, no_filled) == yes_filled /\ no_filled

\* A loop that never looks at the clock.
NoDeadline(elapsed) == TRUE

\* while time.time() - start_time < max_wait_time
WithinDeadline(elapsed) == elapsed < MaxWait

\* time.time() - start_time after a pass that took dt poll intervals; every
\* reading at or past max_wait_time is held as MaxWait.
Clock(elapsed, dt) == IF elapsed + dt > MaxWait THEN MaxWait ELSE elapsed + dt

\* A deadline verdict that reports ONE_FILLED whatever was seen.
MonitorVerdictOneFilled(yes_filled, no_filled) == ONE_FILLED

\* Timeout reached: ONE_FILLED if yes_filled or no_filled, else TIMEOUT.
MonitorVerdict(yes_filled, no_filled) ==
    IF yes_filled \/ no_filled THEN ONE_FILLED ELSE TIMEOUT

\* ------------------------------------------------------------------------
\* PositionValidator (order_manager.py)
\* ------------------------------------------------------------------------

\* A market with no entry in active_positions.
NoPosition == [type |-> "none", size |-> R0]

\* A recorder that adds the size to the one already recorded.
record_position_accumulating(positions, market_id, type, size) ==
    [positions EXCEPT ![market_id] =
        [type |-> type, size |-> RAdd(positions[market_id].size, size)]]

\* A recorder that rebuilds the dict with the one record.
record_position_alone(positions, market_id, type, size) ==
    [m \in Markets |-> IF m = market_id THEN [type |-> type, size |-> size]
                       ELSE NoPosition]

\* _record_position: active_positions[market_id] = {type, size, timestamp}
record_position(positions, market_id, type, size) ==
    [positions EXCEPT ![market_id] = [type |-> type, size |-> size]]

\* validate_arbitrage_position: the positions it leaves and what it returns.
validate_arbitrage_position(positions, market_id, yes_order, no_order) ==
    LET yes_filled == yes_order.status = FILLED
        no_filled == no_order.status = FILLED
    IN  IF yes_order = NoOrder \/ no_order = NoOrder
        THEN [positions |-> positions, valid |-> FALSE]
        ELSE IF yes_filled /\ no_filled
        THEN [positions |-> record_position(positions, market_id, "hedged",
                                            yes_order.size),
              valid |-> TRUE]
        ELSE IF ~yes_filled /\ ~no_filled
        THEN [positions |-> positions, valid |-> TRUE]
        ELSE IF yes_filled
        THEN [positions |-> record_position(positions, market_id, "naked_yes",
                                            yes_order.size),
              valid |-> FALSE]
        ELSE [positions |-> record_position(positions, market_id, "naked_no",
                                            no_order.size),
              valid |-> FALSE]

\* get_naked_positions
get_naked_positions(positions) ==
    {m \in Markets : positions[m].type \in {"naked_yes", "naked_no"}}

\* ------------------------------------------------------------------------
\* OrderManager.execute_arbitrage, statement by statement (order_manager.py)
\* ------------------------------------------------------------------------

\* The order ids the exchange hands out within one call.
YES_ID == 1

NO_ID == 2

RETRY_ID == 3

N_EXECUTION_ERROR == "Execution error"

N_BOTH_FILLED == "Both legs filled successfully - risk-free arbitrage position"

N_FAILED_TO_FILL == "Failed to fill orders"

N_RETRY_FILLED == "both filled after retry - risk-free position"

N_CONTROLLED_LOSS == "exited position with controlled loss"

N_ASSUMED_LOSS == "small controlled loss assumed"

N_UNEXPECTED == "Unexpected partial fill state"

N_NAKED_WARNING == "WARNING: Naked exposure detected - manual intervention required"

N_VALIDATION_FAILED == "POSITION VALIDATION FAILED"

\* ArbitrageExecution(market_id, start_time) with its dataclass defaults,
\* the arguments and locals of the call, and history fields that the
\* program does not hold: raised and raised_at (the statement whose exception
\* the handler caught), retry_filled, validations (calls of
\* validate_arbitrage_position made from execute_arbitrage), cancel_calls
\* (order ids cancel_order was called with), position_at_call (the market's
\* record when the call began), mitigated (handle_partial_fill was entered)
\* validated_after_mitigation, last_valid (what the last call of
\* validate_arbitrage_position for this execution returned),
\* revalidations (such calls made after execute_arbitrage returned),
\* unfilled_book and filled_book (what get_order_book answered in the
\* mitigation, BookUnread when it was not called), retry_attempted (the
\* retry's place_limit_order was called) and retry_order (the order that
\* call placed, NoOrder when it placed none).
NewExecution(market_id, quote, position_size) ==
    [pc |-> "get_market", market_id |-> market_id,
     yes_price |-> quote.yes_ask, no_price |-> quote.no_ask,
     position_size |-> position_size,
     yes_order |-> NoOrder, no_order |-> NoOrder,
     fill_status |-> NONE_FILLED, pnl |-> R0, notes |-> <<>>,
     monitored |-> "unset", position_valid |-> FALSE,
     elapsed |-> 0, yes_filled |-> FALSE, no_filled |-> FALSE,
     current_ask |-> R0, retry_elapsed |-> 0,
     raised |-> FALSE, retry_filled |-> FALSE, validations |-> 0,
     raised_at |-> "", cancel_calls |-> {}, position_at_call |-> NoPosition,
     mitigated |-> FALSE, validated_after_mitigation |-> FALSE,
     last_valid |-> FALSE, revalidations |-> 0,
     unfilled_book |-> BookUnread, filled_book |-> BookUnread,
     retry_attempted |-> FALSE, retry_order |-> NoOrder]

IdleExecution ==
    [NewExecution(CHOOSE m \in Markets : TRUE, CHOOSE q \in Quotes : TRUE, R0)
        EXCEPT !.pc = "idle"]

\* An except handler that books the assumed loss.
RaisedAssumingLoss(e) ==
    [e EXCEPT !.pc = "done", !.fill_status = NONE_FILLED, !.pnl = assumed_loss,
              !.notes = <<N_EXECUTION_ERROR>>, !.raised = TRUE,
              !.raised_at = e.pc]

\* An except handler that reports the failure as a timeout.
RaisedAsTimeout(e) ==
    [e EXCEPT !.pc = "done", !.fill_status = TIMEOUT, !.pnl = R0,
              !.notes = <<N_EXECUTION_ERROR>>, !.raised = TRUE,
              !.raised_at = e.pc]

\* except Exception: fill_status = NONE_FILLED; pnl = 0.0; notes = error
Raised(e) ==
    [e EXCEPT !.pc = "done", !.fill_status = NONE_FILLED, !.pnl = R0,
              !.notes = <<N_EXECUTION_ERROR>>, !.raised = TRUE,
              !.raised_at = e.pc]

\* Final position validation: the note appended before returning.
FinalNotes(notes, position_valid, fill_status) ==
    IF ~position_valid /\ fill_status # NONE_FILLED
    THEN Append(notes, N_VALIDATION_FAILED) ELSE notes

\* A ONE_FILLED branch that appends no warning.
FinishOneFilledUnflagged(e, pnl, note) ==
    [e EXCEPT !.pc = "done", !.fill_status = ONE_FILLED, !.pnl = pnl,
              !.notes = <<note>>]

\* The ONE_FILLED branch once handle_partial_fill has returned (pnl, note).
FinishOneFilled(e, pnl, note) ==
    LET notes == IF ~e.position_valid THEN <<note, N_NAKED_WARNING>>
                 ELSE <<note>>
    IN  [e EXCEPT !.pc = "done", !.fill_status = ONE_FILLED, !.pnl = pnl,
                  !.notes = FinalNotes(notes, e.position_valid, e.monitored)]

\* handle_partial_fill: which handler runs.
FilledLeg(e) ==
    LET yes_filled == e.yes_order # NoOrder /\ e.yes_order.status = FILLED
        no_filled == e.no_order # NoOrder /\ e.no_order.status = FILLED
    IN  IF yes_filled /\ ~no_filled THEN "yes"
        ELSE IF no_filled /\ ~yes_filled THEN "no"
        ELSE "unexpected"

FilledOrder(e) == IF FilledLeg(e) = "yes" THEN e.yes_order ELSE e.no_order

UnfilledOrder(e) == IF FilledLeg(e) = "yes" THEN e.no_order ELSE e.yes_order

\* if current_<leg>_ask + <filled leg>.price < 1.0
EdgePersists(ask, filled_price) == RLt(RAdd(ask, filled_price), R(1))

CallExec(market_id, quote, position_size) ==
    /\ ex.pc \in {"idle", "done"}
    /\ calls < MaxCalls
    /\ calls' = calls + 1
    /\ ex' = [NewExecution(market_id, quote, position_size)
                EXCEPT !.position_at_call = active_positions[market_id]]
    /\ placed' = {}
    /\ cancelled' = {}
    /\ UNCHANGED active_positions

\* A call of execute_arbitrage made directly, outside the coordinator.
Call(market_id, quote, position_size) ==
    /\ CallExec(market_id, quote, position_size)
    /\ UNCHANGED riskVars

\* market_info = self.get_market_info(market_id)
GetMarketInfo(ok) ==
    /\ ex.pc = "get_market"
    /\ ex' = IF ok THEN [ex EXCEPT !.pc = "place_yes"] ELSE Raised(ex)
    /\ UNCHANGED <<active_positions, placed, cancelled, calls, riskVars>>

\* yes_order_id = self.place_limit_order(yes_token_id, BUY, size, yes_price)
PlaceYes(ok) ==
    /\ ex.pc = "place_yes"
    /\ ex' = IF ok THEN [ex EXCEPT !.pc = "place_no"] ELSE Raised(ex)
    /\ placed' = IF ok THEN placed \cup {YES_ID} ELSE placed
    /\ UNCHANGED <<active_positions, cancelled, calls, riskVars>>

\* no_order_id = self.place_limit_order(...); the two OrderInfo objects
PlaceNo(ok) ==
    /\ ex.pc = "place_no"
    /\ ex' = IF ok
             THEN [ex EXCEPT
                     !.pc = "monitor",
                     !.yes_order = OrderInfo(YES_ID, TokenOf("yes", ex.market_id),
                                             ex.position_size, ex.yes_price),
                     !.no_order = OrderInfo(NO_ID, TokenOf("no", ex.market_id),
                                            ex.position_size, ex.no_price)]
             ELSE Raised(ex)
    /\ placed' = IF ok THEN placed \cup {NO_ID} ELSE placed
    /\ UNCHANGED <<active_positions, cancelled, calls, riskVars>>

\* One pass of monitor_fills' loop; dt is the time the pass takes, a poll
\* interval when it sleeps.
MonitorRound(yes_resp, no_resp, dt) ==
    /\ ex.pc = "monitor"
    /\ WithinDeadline(ex.elapsed)
    /\ LET poll_yes == ex.yes_order # NoOrder /\ ~ex.yes_filled
           poll_no == ex.no_order # NoOrder /\ ~ex.no_filled
           yes_order == IF poll_yes THEN PollLeg(ex.yes_order, yes_resp)
                        ELSE ex.yes_order
           no_order == IF poll_no THEN PollLeg(ex.no_order, no_resp)
                       ELSE ex.no_order
           yes_filled == ex.yes_filled
                         \/ (poll_yes /\ SeenFilled(ex.yes_order, yes_resp))
           no_filled == ex.no_filled
                        \/ (poll_no /\ SeenFilled(ex.no_order, no_resp))
           polled == [ex EXCEPT !.yes_order = yes_order, !.no_order = no_order,
                                !.yes_filled = yes_filled,
                                !.no_filled = no_filled]
       IN  IF BothSeenFilled(yes_filled, no_filled)
           THEN ex' = [polled EXCEPT !.pc = "validate",
                                     !.monitored = BOTH_FILLED]
           ELSE /\ yes_filled \/ no_filled \/ dt = 1
                /\ ex' = [polled EXCEPT !.elapsed = Clock(@, dt)]
    /\ UNCHANGED <<active_positions, placed, cancelled, calls, riskVars>>

\* Timeout reached
MonitorDeadline ==
    /\ ex.pc = "monitor"
    /\ ~WithinDeadline(ex.elapsed)
    /\ ex' = [ex EXCEPT !.pc = "validate",
                        !.monitored = MonitorVerdict(ex.yes_filled, ex.no_filled)]
    /\ UNCHANGED <<active_positions, placed, cancelled, calls, riskVars>>

\* position_valid = self.position_validator.validate_arbitrage_position(...)
Validate ==
    /\ ex.pc = "validate"
    /\ LET v == validate_arbitrage_position(active_positions, ex.market_id,
                                            ex.yes_order, ex.no_order)
       IN  /\ active_positions' = v.positions
           /\ ex' = [ex EXCEPT !.pc = "handle", !.position_valid = v.valid,
                               !.validations = @ + 1,
                               !.validated_after_mitigation = ex.mitigated,
                               !.last_valid = v.valid]
    /\ UNCHANGED <<placed, cancelled, calls, riskVars>>

\* position_validator.validate_arbitrage_position(market_id, yes_order,
\* no_order) called again for the execution that returned, its legs as they
\* were left.
Revalidate ==
    /\ ex.pc = "done"
    /\ ex.revalidations < MaxRevalidations
    /\ LET v == validate_arbitrage_position(active_positions, ex.market_id,
                                            ex.yes_order, ex.no_order)
       IN  /\ active_positions' = v.positions
           /\ ex' = [ex EXCEPT !.last_valid = v.valid,
                               !.revalidations = @ + 1]
    /\ UNCHANGED <<placed, cancelled, calls, riskVars>>

\* A BOTH_FILLED branch that books the locked-in edge.
locked_edge(yes_price, no_price, size) ==
    RMul(RSub(R(1), RAdd(yes_price, no_price)), size)

\* execution.pnl = 0.0  # Risk-free position
both_filled_pnl(yes_price, no_price, size) == R0

\* if fill_status == FillStatus.BOTH_FILLED
HandleBothFilled ==
    /\ ex.pc = "handle"
    /\ ex.monitored = BOTH_FILLED
    /\ ex' = [ex EXCEPT
                !.pc = "done", !.fill_status = BOTH_FILLED,
                !.pnl = both_filled_pnl(ex.yes_price, ex.no_price,
                                        ex.position_size),
                !.notes = FinalNotes(<<N_BOTH_FILLED>>, ex.position_valid,
                                     ex.monitored)]
    /\ UNCHANGED <<active_positions, placed, cancelled, calls, riskVars>>

\* A branch that cancels the YES order alone.
UnfilledCancelsYesOnly(yes_order_id, no_order_id) == {yes_order_id}

\* self.cancel_order(yes_order_id); self.cancel_order(no_order_id)
UnfilledCancels(yes_order_id, no_order_id) == {yes_order_id, no_order_id}

\* A branch in which a refused cancel is an exception: the handler takes
\* over at the first cancel that fails.
FinishUnfilledStrict(e, yes_cancelled, no_cancelled) ==
    IF yes_cancelled /\ no_cancelled
    THEN [e EXCEPT
            !.pc = "done", !.fill_status = e.monitored, !.pnl = R0,
            !.cancel_calls = @ \cup {YES_ID, NO_ID},
            !.notes = FinalNotes(<<N_FAILED_TO_FILL>>, e.position_valid,
                                 e.monitored)]
    ELSE [Raised(e) EXCEPT
            !.cancel_calls = @ \cup (IF yes_cancelled THEN {YES_ID, NO_ID}
                                     ELSE {YES_ID})]

\* The execution after the two cancel_order calls, whose results
\* (False when the exchange refused) the branch does not read.
FinishUnfilled(e, yes_cancelled, no_cancelled) ==
    [e EXCEPT
        !.pc = "done", !.fill_status = e.monitored, !.pnl = R0,
        !.cancel_calls = @ \cup UnfilledCancels(YES_ID, NO_ID),
        !.notes = FinalNotes(<<N_FAILED_TO_FILL>>, e.position_valid,
                             e.monitored)]

\* else (NONE_FILLED or TIMEOUT): cancel both orders; each cancel_order
\* returns False when the exchange refuses.
HandleUnfilled(yes_cancelled, no_cancelled) ==
    /\ ex.pc = "handle"
    /\ ex.monitored \notin {BOTH_FILLED, ONE_FILLED}
    /\ cancelled' = cancelled
                    \cup (UnfilledCancels(YES_ID, NO_ID)
                          \cap ((IF yes_cancelled THEN {YES_ID} ELSE {})
                                \cup (IF no_cancelled THEN {NO_ID} ELSE {})))
    /\ ex' = FinishUnfilled(ex, yes_cancelled, no_cancelled)
    /\ UNCHANGED <<active_positions, placed, calls, riskVars>>

\* handle_partial_fill up to the edge test: the book of the unfilled leg.
QueryUnfilledBook(ask) ==
    /\ ex.pc = "handle"
    /\ ex.monitored = ONE_FILLED
    /\ LET entered == [ex EXCEPT !.mitigated = TRUE]
           queried == [entered EXCEPT !.unfilled_book = ask]
       IN  ex' = IF FilledLeg(ex) = "unexpected"
                 THEN FinishOneFilled(entered, R0, N_UNEXPECTED)
                 ELSE IF ask = BookRaises
                 THEN FinishOneFilled(queried, assumed_loss, N_ASSUMED_LOSS)
                 ELSE LET current_ask == IF ask = BookEmpty
                                         THEN UnfilledOrder(ex).price ELSE ask
                      IN  IF EdgePersists(current_ask, FilledOrder(ex).price)
                          THEN [queried EXCEPT !.pc = "place_retry",
                                               !.current_ask = current_ask,
                                               !.retry_attempted = TRUE]
                          ELSE [queried EXCEPT !.pc = "exit_book"]
    /\ UNCHANGED <<active_positions, placed, cancelled, calls, riskVars>>

\* new_<leg>_order_id = self.place_limit_order(token, BUY, size, current ask)
PlaceRetry(ok) ==
    /\ ex.pc = "place_retry"
    /\ ex' = IF ok
             THEN [ex EXCEPT !.pc = "retry_poll", !.retry_elapsed = 0,
                             !.retry_order =
                                 OrderInfo(RETRY_ID, UnfilledOrder(ex).token_id,
                                           UnfilledOrder(ex).size, ex.current_ask)]
             ELSE FinishOneFilled(ex, assumed_loss, N_ASSUMED_LOSS)
    /\ placed' = IF ok THEN placed \cup {RETRY_ID} ELSE placed
    /\ UNCHANGED <<active_positions, cancelled, calls, riskVars>>

\* A retry whose fill is noticed but does not end the handler.
RetryFilledFallsThrough(e) ==
    [e EXCEPT !.pc = "exit_book", !.retry_filled = TRUE]

\* return (0.0, "... both filled after retry - risk-free position")
RetryFilled(e) ==
    [FinishOneFilled(e, R0, N_RETRY_FILLED) EXCEPT !.retry_filled = TRUE]

\* One pass of the retry's ten-second loop.
RetryPoll(resp) ==
    /\ ex.pc = "retry_poll"
    /\ ex.retry_elapsed < RetryWait
    /\ ex' = IF resp.filled_size = UnfilledOrder(ex).size
             THEN RetryFilled(ex)
             ELSE [ex EXCEPT !.retry_elapsed = @ + 1]
    /\ UNCHANGED <<active_positions, placed, cancelled, calls, riskVars>>

RetryDeadline ==
    /\ ex.pc = "retry_poll"
    /\ ex.retry_elapsed >= RetryWait
    /\ ex' = [ex EXCEPT !.pc = "exit_book"]
    /\ UNCHANGED <<active_positions, placed, cancelled, calls, riskVars>>

\* The book of the filled leg: exit at its best bid, or the assumed loss.
QueryFilledBook(bid) ==
    /\ ex.pc = "exit_book"
    /\ LET queried == [ex EXCEPT !.filled_book = bid]
       IN  ex' = IF bid \in {BookRaises, BookEmpty}
                 THEN FinishOneFilled(queried, assumed_loss, N_ASSUMED_LOSS)
                 ELSE FinishOneFilled(queried,
                          exit_pnl(FilledOrder(ex).price, bid, FilledOrder(ex).size),
                          N_CONTROLLED_LOSS)
    /\ UNCHANGED <<active_positions, placed, cancelled, calls, riskVars>>

\* ------------------------------------------------------------------------
\* SpecRisk
\* ------------------------------------------------------------------------

\* `filled` BOTH_FILLED outcomes followed by `failed` FAILED ones, each at
\* pnl 0: the history after that many executions that
\* all filled or timed out.
WarmHistory(filled, failed) ==
    [i \in 1..(filled + failed) |->
        HistoryEntry(IF i <= filled THEN ES_BOTH_FILLED ELSE ES_FAILED,
                     R0)]

\* Histories the run starts from: a fresh process, one outcome short of the
\* scaling window, and a full window at exactly min_success_rate.
InitHistories == {<<>>, WarmHistory(9, 0), WarmHistory(8, 2)}

LedgerOf(history) ==
    [i \in 1..Len(history) |->
        LogEntry(history[Len(history) + 1 - i].status,
                 history[Len(history) + 1 - i].pnl)]

\* A fresh process: no position recorded, no call of execute_arbitrage made.
InitExecutor ==
    /\ active_positions = [m \in Markets |-> NoPosition]
    /\ ex = IdleExecution
    /\ placed = {}
    /\ cancelled = {}
    /\ calls = 0

\* The coordinator's globals with `history` already recorded.
InitCoordinator(history) ==
    /\ risk_state = [current_position_size |-> initial_position_size,
                     daily_pnl |-> R0,
                     execution_history |-> history,
                     trading_enabled |-> TRUE]
    /\ execution_counter = Len(history)
    /\ execution_logs = LedgerOf(history)
    /\ submission = [e \in Slots |-> IdleSubmission]
    /\ last_return = NoReturn
    /\ last_sizing = NoSizing
    /\ stop_seen = FALSE

InitRisk ==
    /\ \E h \in InitHistories : InitCoordinator(h)
    /\ InitExecutor

NextRisk ==
    \/ CallSizing
    \/ \E e \in Execs, opp \in Opps, ps \in Overrides : SubmitDisabled(e, opp, ps)
    \/ \E e \in Execs, opp \in Opps, ps \in Overrides : SubmitZeroSize(e, opp, ps)
    \/ \E e \in Execs, opp \in Opps, ps \in Overrides : SubmitDispatch(e, opp, ps)
    \/ \E e \in Execs :
          \E out \in ExecutionOutcomes(submission[e].opp, submission[e].position_size) :
              Return(e, out)

SpecRisk == InitRisk /\ [][NextRisk]_vars

\* ------------------------------------------------------------------------
\* SpecLoad: more submissions than max_concurrent_executions, from a fresh
\* process, every execution ending with pnl 0.
\* ------------------------------------------------------------------------

Init ==
    /\ InitCoordinator(<<>>)
    /\ InitExecutor

NextLoad ==
    \/ \E e \in LoadExecs, opp \in Opps, ps \in Overrides : SubmitZeroSize(e, opp, ps)
    \/ \E e \in LoadExecs, opp \in Opps, ps \in Overrides : SubmitDispatch(e, opp, ps)
    \/ \E e \in LoadExecs :
          \E out \in {o \in ExecutionOutcomes(submission[e].opp,
                                              submission[e].position_size) :
                         o.pnl = R0} :
              Return(e, out)

SpecLoad == Init /\ [][NextLoad]_vars

\* ------------------------------------------------------------------------
\* SpecSeq: a sequential run (one call of execute_arbitrage_opportunity at a
\* time) of a process whose execution_history is at, or one entry short of,
\* max_history.
\* ------------------------------------------------------------------------

\* Histories one entry short of max_history and at max_history, the latter
\* with an oldest entry that differs from all the others.
FullHistories == {WarmHistory(19, 0), WarmHistory(1, 19)}

InitSeq ==
    /\ \E h \in FullHistories : InitCoordinator(h)
    /\ InitExecutor

NextSeq ==
    \/ CallSizing
    \/ /\ InFlight = {}
       /\ \E e \in Execs, opp \in Opps, ps \in Overrides : SubmitDisabled(e, opp, ps)
    \/ /\ InFlight = {}
       /\ \E e \in Execs, opp \in Opps, ps \in Overrides : SubmitZeroSize(e, opp, ps)
    \/ /\ InFlight = {}
       /\ \E e \in Execs, opp \in Opps, ps \in Overrides : SubmitDispatch(e, opp, ps)
    \/ \E e \in Execs :
          \E out \in ExecutionOutcomes(submission[e].opp, submission[e].position_size) :
              Return(e, out)

SpecSeq == InitSeq /\ [][NextSeq]_vars

\* ------------------------------------------------------------------------
\* SpecWarm: a sequential run of a process that is fresh or one outcome
\* short of the scaling window.
\* ------------------------------------------------------------------------

ShortHistories == {<<>>, WarmHistory(9, 0)}

InitWarm ==
    /\ \E h \in ShortHistories : InitCoordinator(h)
    /\ InitExecutor

SpecWarm == InitWarm /\ [][NextSeq]_vars

\* ------------------------------------------------------------------------
\* SpecRace: concurrent calls of execute_arbitrage_opportunity from a fresh
\* process, the recording of each outcome taken step by step.
\* ------------------------------------------------------------------------

NextRace ==
    \/ \E e \in Execs, opp \in Opps, ps \in Overrides : SubmitZeroSize(e, opp, ps)
    \/ \E e \in Execs, opp \in Opps, ps \in Overrides : SubmitDispatch(e, opp, ps)
    \/ \E e \in Execs :
          \E out \in ExecutionOutcomes(submission[e].opp, submission[e].position_size) :
              RecordAppend(e, out)
    \/ \E e \in Execs : RecordLoad(e)
    \/ \E e \in Execs : RecordStore(e)

SpecRace == Init /\ [][NextRace]_vars

\* ------------------------------------------------------------------------
\* SpecFull: one call of execute_arbitrage_opportunity followed through
\* OrderManager.execute_arbitrage statement by statement, made in a process
\* that is fresh or has executed once on market m2.
\* ------------------------------------------------------------------------

\* Opportunities on either market, at the quotes of Opps.
FullOpps ==
    {[market_id |-> m, yes_ask |-> o.yes_ask, no_ask |-> o.no_ask] :
        m \in Markets, o \in Opps}

\* The process before the call: fresh, or after one execution on m2 of
\* the given size whose YES leg alone filled and was valued at the bid 0.1
\* (ONE_FILLED, 'naked_yes' recorded), trading_enabled as
\* get_adaptive_position_size has left it if it was called since.
PriorExecution(size, enabled) ==
    LET pnl == exit_pnl(<<3, 5>>, <<1, 10>>, size)
    IN  [history |-> <<HistoryEntry(ES_PARTIAL_FILL, pnl)>>,
         daily_pnl |-> pnl, trading_enabled |-> enabled,
         positions |-> [m \in Markets |->
                          IF m = "m2" THEN [type |-> "naked_yes", size |-> size]
                          ELSE NoPosition]]

FullStarts ==
    {[history |-> <<>>, daily_pnl |-> R0, trading_enabled |-> TRUE,
      positions |-> [m \in Markets |-> NoPosition]],
     PriorExecution(initial_position_size, TRUE),
     PriorExecution(max_scaling_size, TRUE),
     PriorExecution(max_scaling_size, FALSE)}

InitFull ==
    \E s \in FullStarts :
        /\ risk_state = [current_position_size |-> initial_position_size,
                         daily_pnl |-> s.daily_pnl,
                         execution_history |-> s.history,
                         trading_enabled |-> s.trading_enabled]
        /\ execution_counter = Len(s.history)
        /\ execution_logs = LedgerOf(s.history)
        /\ submission = [e \in Slots |-> IdleSubmission]
        /\ last_return = NoReturn
        /\ last_sizing = NoSizing
        /\ stop_seen = RLe(s.daily_pnl, emergency_stop_loss)
        /\ active_positions = s.positions
        /\ ex = IdleExecution
        /\ placed = {}
        /\ cancelled = {}
        /\ calls = 0

\* The submission is dispatched and order_manager.execute_arbitrage is
\* called with the opportunity's market and asks and the resolved size.
DispatchCall(opp, ps) ==
    /\ SubmitDispatchRisk(1, opp, ps)
    /\ CallExec(opp.market_id, [yes_ask |-> opp.yes_ask, no_ask |-> opp.no_ask],
                ResolveSize(risk_state, ps).ret)

\* order_manager.execute_arbitrage has returned the execution `ex`: it is
\* recorded and the call of execute_arbitrage_opportunity returns.
ReturnExecuted ==
    /\ ex.pc = "done"
    /\ ReturnRisk(1, [fill_status |-> ex.fill_status, pnl |-> ex.pnl])
    /\ UNCHANGED execVars

NextFull ==
    \/ \E opp \in FullOpps, ps \in Overrides : SubmitDisabled(1, opp, ps)
    \/ \E opp \in FullOpps, ps \in Overrides : SubmitZeroSize(1, opp, ps)
    \/ \E opp \in FullOpps, ps \in Overrides : DispatchCall(opp, ps)
    \/ \E ok \in BOOLEAN : GetMarketInfo(ok)
    \/ \E ok \in BOOLEAN : PlaceYes(ok)
    \/ \E ok \in BOOLEAN : PlaceNo(ok)
    \/ \E ry \in StatusResponses(ex.position_size),
          rn \in StatusResponses(ex.position_size), dt \in {0, 1} :
            MonitorRound(ry, rn, dt)
    \/ MonitorDeadline
    \/ Validate
    \/ HandleBothFilled
    \/ \E cy \in BOOLEAN, cn \in BOOLEAN : HandleUnfilled(cy, cn)
    \/ \E ask \in Asks \cup {BookEmpty, BookRaises} : QueryUnfilledBook(ask)
    \/ \E ok \in BOOLEAN : PlaceRetry(ok)
    \/ \E resp \in StatusResponses(ex.position_size) : RetryPoll(resp)
    \/ RetryDeadline
    \/ \E bid \in Bids \cup {BookEmpty, BookRaises} : QueryFilledBook(bid)
    \/ ReturnExecuted

SpecFull == InitFull /\ [][NextFull]_vars

\* ------------------------------------------------------------------------
\* Spec: calls of OrderManager.execute_arbitrage, one at a time
\* ------------------------------------------------------------------------


Next ==
    \/ \E m \in Markets, q \in Quotes, s \in ExecSizes : Call(m, q, s)
    \/ \E ok \in BOOLEAN : GetMarketInfo(ok)
    \/ \E ok \in BOOLEAN : PlaceYes(ok)
    \/ \E ok \in BOOLEAN : PlaceNo(ok)
    \/ \E ry \in StatusResponses(ex.position_size),
          rn \in StatusResponses(ex.position_size), dt \in {0, 1} :
            MonitorRound(ry, rn, dt)
    \/ MonitorDeadline
    \/ Validate
    \/ Revalidate
    \/ HandleBothFilled
    \/ \E cy \in BOOLEAN, cn \in BOOLEAN : HandleUnfilled(cy, cn)
    \/ \E ask \in Asks \cup {BookEmpty, BookRaises} : QueryUnfilledBook(ask)
    \/ \E ok \in BOOLEAN : PlaceRetry(ok)
    \/ \E resp \in StatusResponses(ex.position_size) : RetryPoll(resp)
    \/ RetryDeadline
    \/ \E bid \in Bids \cup {BookEmpty, BookRaises} : QueryFilledBook(bid)

Spec == Init /\ [][Next]_vars

\* The clock keeps advancing while monitor_fills runs: a pass of its loop
\* that takes a poll interval is eventually made, and so is the exit at the
\* deadline.
ClockAdvances ==
    \E ry \in StatusResponses(ex.position_size),
       rn \in StatusResponses(ex.position_size) : MonitorRound(ry, rn, 1)

SpecLive == Spec /\ WF_vars(ClockAdvances) /\ WF_vars(MonitorDeadline)

\* ------------------------------------------------------------------------
\* Properties of the coordinator (SpecRisk, SpecLoad)
\* ------------------------------------------------------------------------

\* The reasons a risk-gate rejection carries.
RiskReasons ==
    {"Trading disabled by risk management", "Position size is 0 (risk management)"}

\* The gate of execute_arbitrage_opportunity is closed for a call: trading
\* was disabled when it was called, or the size it resolved is <= 0.
GateClosed(ret) == ~ret.enabled_at_call \/ RLe(ret.size, R0)

\* C3: in every reachable state current_position_size lies in
\* [initial_position_size, max_scaling_size].
C3_PositionSizeBounded ==
    /\ RLe(initial_position_size, risk_state.current_position_size)
    /\ RLe(risk_state.current_position_size, max_scaling_size)

\* C3 witness: with a full scaling window recorded and an outcome recorded in
\* this run, a sizing call has scaled the size up to the cap.
C3_Witness ==
    /\ last_sizing.called
    /\ Len(risk_state.execution_history) > scaling_window
    /\ risk_state.current_position_size = max_scaling_size

\* C4: a submission made while daily_pnl <= emergency_stop_loss is rejected
\* with a risk-management reason, leaves trading_enabled false and does not
\* reach the exchange, with or without a position_size override.
C4_StopLossRejectsEverySubmission ==
    /\ \A e \in InFlight : ~submission[e].stop_at_call
    /\ (last_return.returned /\ last_return.stop_at_call) =>
          /\ last_return.result.status = ES_FAILED
          /\ last_return.result.details \in RiskReasons
          /\ ~last_return.enabled_after
          /\ ~last_return.contacted

\* C5: once trading_enabled is false, no step sets it back to true.
C5_DisabledIsSticky ==
    [][~risk_state.trading_enabled => ~risk_state'.trading_enabled]_vars

\* C5 witness: trading is disabled and an outcome recorded since has brought
\* daily_pnl back above emergency_stop_loss.
C5_Witness ==
    /\ ~risk_state.trading_enabled
    /\ ~StopLossHit(risk_state)
    /\ last_return.returned /\ last_return.contacted

\* C6: once daily_pnl <= emergency_stop_loss has held, every later call of
\* get_adaptive_position_size returns 0.
C6_SizingZeroAfterStop ==
    (last_sizing.called /\ last_sizing.after_stop) => last_sizing.ret = R0

\* C7: of two calls of get_adaptive_position_size with nothing recorded
\* between them, the second returns what the first returned and leaves
\* current_position_size unchanged.
C7_SizingIdempotent ==
    [][(last_sizing.called /\ last_sizing'.called) =>
          /\ last_sizing'.ret = last_sizing.ret
          /\ risk_state'.current_position_size = risk_state.current_position_size]_vars

\* C8: at no time are more than max_concurrent_executions executions inside
\* order_manager.execute_arbitrage.
C8_InFlightBounded == Cardinality(InFlight) <= max_concurrent_executions

\* C9: a submission the risk gate rejects (trading disabled, or resolved size
\* <= 0) never reaches the exchange and is reported FAILED with pnl 0 and a
\* reason that names risk management.
C9_GateRejection ==
    /\ \A e \in InFlight : RLt(R0, submission[e].position_size)
    /\ (last_return.returned /\ GateClosed(last_return)) =>
          /\ ~last_return.contacted
          /\ last_return.result.status = ES_FAILED
          /\ last_return.result.pnl = R0
          /\ last_return.result.details \in RiskReasons

\* C9 witness: a submission made with trading disabled has just returned.
C9_Witness ==
    /\ last_return.returned
    /\ ~last_return.enabled_at_call
    /\ last_return.result.details = "Trading disabled by risk management"

\* ------------------------------------------------------------------------
\* Properties of the executor (Spec)
\* ------------------------------------------------------------------------

\* execute_arbitrage has returned the execution held in ex.
ExecutionReturned == ex.pc = "done"

\* C1: every returned execution has fill_status BOTH_FILLED exactly when
\* both of its legs have status FILLED, on the exception and mitigation
\* paths too.
C1_BothFilledIffLegsFilled ==
    ExecutionReturned =>
        ((ex.fill_status = BOTH_FILLED)
            <=> (ex.yes_order.status = FILLED /\ ex.no_order.status = FILLED))

\* C1 witness: an execution returned BOTH_FILLED after the NO leg was seen
\* filled in a later round than the YES leg.
C1_Witness ==
    /\ ExecutionReturned
    /\ ex.fill_status = BOTH_FILLED
    /\ ex.yes_order.status = FILLED /\ ex.no_order.status = FILLED
    /\ ex.elapsed > 0

\* C2: when an execution monitored as ONE_FILLED returns, its market's
\* record is 'hedged' if the retry order filled, and otherwise 'naked_yes'
\* or 'naked_no' with a nonzero pnl; the market is never without a record.
C2_OneFilledRecordedAfterMitigation ==
    (ExecutionReturned /\ ex.monitored = ONE_FILLED) =>
        LET position == active_positions[ex.market_id]
        IN  IF ex.retry_filled THEN position.type = "hedged"
            ELSE /\ position.type \in {"naked_yes", "naked_no"}
                 /\ ex.pnl # R0

\* C10: when placing a leg raised, every order the exchange had accepted in
\* that execution has been cancelled by the time the execution returns.
C10_PlacedLegsCancelledOnRaise ==
    (ExecutionReturned /\ ex.raised) => placed \subseteq cancelled

\* C11: when get_market_info raises, execute_arbitrage has placed no order,
\* leaves yes_order and no_order unset, and returns pnl 0 with a fill_status
\* the coordinator converts to FAILED.
C11_TokenLookupFailure ==
    (ExecutionReturned /\ ex.raised_at = "get_market") =>
        /\ placed = {}
        /\ ex.yes_order = NoOrder /\ ex.no_order = NoOrder
        /\ ex.pnl = R0
        /\ LegacyStatus(ex.fill_status) = ES_FAILED

\* C11 witness: a call has returned from the handler after get_market_info
\* raised.
C11_Witness ==
    /\ ExecutionReturned
    /\ ex.raised_at = "get_market"
    /\ ex.notes = <<N_EXECUTION_ERROR>>

\* C12: when neither leg was seen filled by the deadline, execute_arbitrage
\* returns TIMEOUT with pnl 0, has called cancel_order for both leg order
\* ids, and leaves the market's record as it was when the call began.
C12_TimeoutCancelsBoth ==
    (ExecutionReturned /\ ex.monitored = TIMEOUT) =>
        /\ ex.fill_status = TIMEOUT
        /\ ex.pnl = R0
        /\ {ex.yes_order.order_id, ex.no_order.order_id} \subseteq ex.cancel_calls
        /\ active_positions[ex.market_id] = ex.position_at_call

\* C12 witness: a call has returned TIMEOUT with one leg partly filled and
\* the exchange having refused both cancels.
C12_Witness ==
    /\ ExecutionReturned
    /\ ex.fill_status = TIMEOUT
    /\ ex.yes_order.status = PARTIAL_FILL
    /\ cancelled = {}

\* C13: on every path execute_arbitrage calls validate_arbitrage_position
\* exactly once before it returns, and when handle_partial_fill ran, the
\* call was made after it.
C13_ValidatedOnceOnFinalState ==
    ExecutionReturned =>
        /\ ex.validations = 1
        /\ ex.mitigated => ex.validated_after_mitigation

\* monitor_fills has returned in the execution held in ex.
MonitorReturned == ex.monitored # "unset"

\* C14: monitor_fills starts no pass once a pass has seen both legs filled
\* and then returns BOTH_FILLED before the deadline; otherwise it returns at
\* the deadline, ONE_FILLED exactly when one leg alone was seen filled and
\* TIMEOUT exactly when neither was; it returns nothing else.
C14_MonitorVerdicts ==
    /\ ex.pc = "monitor" => ~(ex.yes_filled /\ ex.no_filled)
    /\ MonitorReturned =>
          /\ ex.monitored \in {BOTH_FILLED, ONE_FILLED, TIMEOUT}
          /\ ex.monitored = BOTH_FILLED <=> (ex.yes_filled /\ ex.no_filled)
          /\ ex.monitored = ONE_FILLED <=> (ex.yes_filled # ex.no_filled)
          /\ ex.monitored = TIMEOUT <=> (~ex.yes_filled /\ ~ex.no_filled)
          /\ ex.monitored = BOTH_FILLED => ex.elapsed < MaxWait
          /\ ex.monitored # BOTH_FILLED => ex.elapsed >= MaxWait

\* C14 witness: monitor_fills has returned ONE_FILLED at the deadline with
\* the NO leg alone seen filled.
C14_Witness ==
    /\ ex.pc = "validate"
    /\ ex.monitored = ONE_FILLED
    /\ ex.no_filled /\ ~ex.yes_filled
    /\ ex.elapsed = MaxWait

\* C15: with the clock advancing, monitor_fills always returns, whatever
\* the status queries answer.
C15_MonitorTerminates == (ex.pc = "monitor") ~> (ex.pc = "validate")

\* C15 witness: monitor_fills has returned TIMEOUT after status queries
\* that failed on the last pass for both legs.
C15_Witness ==
    /\ ex.pc = "validate"
    /\ ex.monitored = TIMEOUT
    /\ ex.yes_order.filled_size = R0 /\ ex.yes_order.remaining_size = R0
    /\ ex.no_order.filled_size = R0 /\ ex.no_order.remaining_size = R0

\* The notes of the returned execution carry `note`.
Noted(note) == \E i \in 1..Len(ex.notes) : ex.notes[i] = note

\* C16: whenever execute_arbitrage returns ONE_FILLED and the retry did not
\* fill, the market is among get_naked_positions() and the notes carry the
\* naked-exposure warning.
C16_NakedExposureFlagged ==
    (ExecutionReturned /\ ex.fill_status = ONE_FILLED /\ ~ex.retry_filled) =>
        /\ ex.market_id \in get_naked_positions(active_positions)
        /\ Noted(N_NAKED_WARNING)

\* C16 witness: a call has returned ONE_FILLED with the NO leg alone filled,
\* a retry placed that did not fill, and the assumed loss booked.
C16_Witness ==
    /\ ExecutionReturned
    /\ ex.fill_status = ONE_FILLED
    /\ ~ex.retry_filled
    /\ RETRY_ID \in placed
    /\ ex.no_order.status = FILLED
    /\ ex.pnl = assumed_loss

\* C17: when mitigation ends in a controlled-loss exit of the filled leg,
\* the market has no position record when execute_arbitrage returns.
C17_PositionClearedAfterUnwind ==
    (ExecutionReturned /\ Noted(N_CONTROLLED_LOSS)) =>
        active_positions[ex.market_id] = NoPosition

\* validate_arbitrage_position has just returned to execute_arbitrage.
JustValidated == ex.pc = "handle"

\* C18: validate_arbitrage_position classifies by leg status: both legs
\* FILLED records 'hedged' with the leg size and returns true; neither
\* FILLED returns true and leaves the market with no record; one FILLED
\* records 'naked_yes' or 'naked_no' with that leg's size and returns false.
C18_ValidateClassifies ==
    JustValidated =>
        LET yes_filled == ex.yes_order.status = FILLED
            no_filled == ex.no_order.status = FILLED
            position == active_positions[ex.market_id]
        IN  /\ (yes_filled /\ no_filled) =>
                  /\ ex.position_valid
                  /\ position = [type |-> "hedged", size |-> ex.yes_order.size]
            /\ (~yes_filled /\ ~no_filled) =>
                  /\ ex.position_valid
                  /\ position = NoPosition
            /\ (yes_filled /\ ~no_filled) =>
                  /\ ~ex.position_valid
                  /\ position = [type |-> "naked_yes", size |-> ex.yes_order.size]
            /\ (no_filled /\ ~yes_filled) =>
                  /\ ~ex.position_valid
                  /\ position = [type |-> "naked_no", size |-> ex.no_order.size]

\* C19: a call of validate_arbitrage_position that repeats the previous
\* one for the execution, same market and same leg states, returns what
\* that one returned and leaves every market's record, type and size, as it
\* was.
C19_RevalidationIdempotent ==
    [][(/\ ex'.revalidations = ex.revalidations + 1
        /\ ex.validations + ex.revalidations >= 1) =>
           /\ ex'.last_valid = ex.last_valid
           /\ active_positions' = active_positions]_vars

\* C19 witness: validate_arbitrage_position has been called again for an
\* execution it recorded as naked_yes.
C19_Witness ==
    /\ ex.validations = 1
    /\ ex.revalidations >= 1
    /\ ~ex.last_valid
    /\ active_positions[ex.market_id] =
          [type |-> "naked_yes", size |-> ex.yes_order.size]

\* ------------------------------------------------------------------------
\* Properties of the risk manager's scaling step (SpecRisk)
\* ------------------------------------------------------------------------

\* BOTH_FILLED outcomes among the last scaling_window of `history`.
FilledInWindow(history) ==
    Cardinality({i \in (Len(history) - scaling_window + 1)..Len(history) :
                    history[i].status = ES_BOTH_FILLED})

\* The size one scaling step gives from `size` with `filled` BOTH_FILLED
\* outcomes in the window.
OneStep(size, filled) ==
    IF filled * min_success_rate[2] >= min_success_rate[1] * scaling_window
    THEN RMin(RMul(size, scaling_factor), max_scaling_size)
    ELSE RMax(RDiv(size, scaling_factor), initial_position_size)

\* C20: with daily_pnl above emergency_stop_loss and at least scaling_window
\* outcomes recorded, a call of get_adaptive_position_size sets
\* current_position_size to exactly one scaling step from its old value,
\* up (capped) when the window's success rate reaches min_success_rate and
\* down (floored) otherwise, and returns that size.
C20_OneScalingStep ==
    [][(/\ last_sizing'.called
        /\ ~StopLossHit(risk_state)
        /\ Len(risk_state.execution_history) >= scaling_window) =>
           LET new_size == OneStep(risk_state.current_position_size,
                                   FilledInWindow(risk_state.execution_history))
           IN  /\ risk_state'.current_position_size = new_size
               /\ last_sizing'.ret = new_size]_vars

\* C20 witness: with a full window at min_success_rate, a second call in a
\* row has taken the size from 15 to 22.5 and returned it.
C20_Witness ==
    /\ last_sizing.called
    /\ Len(risk_state.execution_history) >= scaling_window
    /\ FilledInWindow(risk_state.execution_history) = 8
    /\ risk_state.current_position_size = <<45, 2>>
    /\ last_sizing.ret = <<45, 2>>

\* ------------------------------------------------------------------------
\* Properties of the recording of outcomes (SpecSeq, SpecRace, SpecRisk)
\* ------------------------------------------------------------------------

\* The step just taken recorded an execution's outcome in risk_state.
Recorded == last_return.returned /\ last_return.contacted

\* C21: every step that records an execution leaves at most
\* 2 * scaling_window history entries, which are the most recent ones in
\* arrival order (the new entry last, the oldest dropped first), and raises
\* daily_pnl by exactly that execution's pnl.
C21_RecordBoundsHistory ==
    [][Recorded' =>
        LET before == risk_state.execution_history
            after  == risk_state'.execution_history
            all    == Append(before, HistoryEntry(last_return'.result.status,
                                                  last_return'.result.pnl))
            kept   == IF Len(all) < 2 * scaling_window THEN Len(all)
                      ELSE 2 * scaling_window
        IN  /\ Len(after) <= 2 * scaling_window
            /\ Len(after) = kept
            /\ \A i \in 1..kept : after[i] = all[Len(all) - kept + i]
            /\ risk_state'.daily_pnl =
                   RAdd(risk_state.daily_pnl, last_return'.result.pnl)]_vars

\* An execution with a loss was recorded into a full history: the oldest
\* entry (the only BOTH_FILLED one) is gone and the loss is the newest.
C21_Witness ==
    /\ Recorded
    /\ Len(risk_state.execution_history) = 2 * scaling_window
    /\ \A i \in 1..(2 * scaling_window - 1) :
           risk_state.execution_history[i].status = ES_FAILED
    /\ risk_state.execution_history[2 * scaling_window].status = ES_PARTIAL_FILL
    /\ RLt(risk_state.daily_pnl, R0)

RECURSIVE SumPnl(_)
\* The sum of the pnl of the entries of a history.
SumPnl(history) ==
    IF history = <<>> THEN R0
    ELSE RAdd(history[1].pnl, SumPnl(Tail(history)))

\* No call of execute_arbitrage_opportunity is in progress.
Quiescent == \A e \in Slots : submission[e].pc \in {"idle", "returned"}

\* C22: when the executions that ran concurrently have all completed, no
\* update is lost: execution_history has one entry per dispatched execution
\* and daily_pnl is the prior daily_pnl (0 in a fresh process) plus the sum
\* of their pnl, whatever the interleaving of the recording steps.
C22_NoLostUpdate ==
    Quiescent =>
        /\ Len(risk_state.execution_history) = execution_counter
        /\ risk_state.daily_pnl = SumPnl(risk_state.execution_history)

\* C24 as stated: the call that returns from a dispatched execution has put
\* exactly one record in front of execution_logs, carrying the status and
\* the pnl of the execution's outcome.
C24_LedgerRecordsOutcome ==
    [][Recorded' =>
        execution_logs' =
            <<[status |-> last_return'.result.status,
               pnl |-> last_return'.result.pnl]>> \o execution_logs]_vars

\* C24 amended: the call that returns from a dispatched execution has put
\* exactly one record in front of execution_logs, which carries the status
\* of the outcome and its pnl rounded to cents (a whole number of cents, at
\* most half a cent away from the pnl); no other step changes the ledger.
C24_LedgerRecordsRoundedOutcome ==
    [][IF Recorded'
       THEN LET rec == Head(execution_logs')
                d   == RSub(rec.pnl, last_return'.result.pnl)
            IN  /\ execution_logs' = <<rec>> \o execution_logs
                /\ rec.status = last_return'.result.status
                /\ RMul(R(100), rec.pnl)[2] = 1
                /\ RLe(d, <<1, 200>>) /\ RLe(<<0 - 1, 200>>, d)
       ELSE UNCHANGED execution_logs]_vars

\* C24 witness: an execution of size 33.75 that exited at a loss of 16.875
\* has returned, and its ledger record shows -16.88.
C24_Witness ==
    /\ Recorded
    /\ last_return.result.pnl = <<0 - 135, 8>>
    /\ Len(execution_logs) = 21
    /\ Head(execution_logs) = [status |-> ES_PARTIAL_FILL, pnl |-> <<0 - 422, 25>>]

\* ------------------------------------------------------------------------
\* Properties of the executor's result and of the mitigation (Spec)
\* ------------------------------------------------------------------------

UnfilledBookRead == ex.mitigated /\ ex.unfilled_book # BookUnread

\* The unfilled leg's book showed a best ask.
BestAskQuoted == ex.unfilled_book \notin {BookUnread, BookEmpty, BookRaises}

\* C25: once handle_partial_fill has read the unfilled leg's book, the
\* retry's placement has been called if and only if that book's best ask
\* plus the filled leg's price is below 1.0; a retry that was placed is the
\* only one, a BUY of the unfilled leg's token and size at that best ask,
\* and it is polled no longer than the retry's deadline.
C25_RetryIffEdgePersists ==
    UnfilledBookRead =>
        /\ ex.retry_attempted <=>
              (BestAskQuoted /\ EdgePersists(ex.unfilled_book, FilledOrder(ex).price))
        /\ ex.retry_order # NoOrder =>
              /\ ex.retry_order.side = "BUY"
              /\ ex.retry_order.token_id = UnfilledOrder(ex).token_id
              /\ ex.retry_order.size = UnfilledOrder(ex).size
              /\ ex.retry_order.price = ex.unfilled_book
              /\ placed = {YES_ID, NO_ID, RETRY_ID}
        /\ ex.retry_elapsed <= RetryWait

\* C26: when the retry was reported filled before its deadline, the
\* execution returns pnl 0 with the "filled after retry" note, and no exit
\* was computed or attempted: the filled leg's book was never read and no
\* loss note was written.
C26_RetryFillIsHedge ==
    (ExecutionReturned /\ ex.retry_filled) =>
        /\ ex.pnl = R0
        /\ Noted(N_RETRY_FILLED)
        /\ ex.filled_book = BookUnread
        /\ ~Noted(N_CONTROLLED_LOSS) /\ ~Noted(N_ASSUMED_LOSS)
        /\ ex.retry_elapsed < RetryWait

\* C26 witness: NO alone filled, the retry of YES at the quoted ask 0.3 was
\* reported filled, and the call has returned.
C26_Witness ==
    /\ ExecutionReturned
    /\ ex.retry_filled
    /\ FilledLeg(ex) = "no"
    /\ ex.retry_order.token_id = TokenOf("yes", ex.market_id)
    /\ ex.retry_order.price = <<3, 10>>
    /\ ex.unfilled_book = <<3, 10>>

\* The filled leg's book showed a best bid.
BestBidQuoted == ex.filled_book \notin {BookUnread, BookEmpty, BookRaises}

\* C27: when the retry was not placed or did not fill and the filled leg's
\* book shows a best bid, the execution returns
\* pnl = -(entry price - best bid) * size of the filled leg, whichever leg
\* it is, with the controlled-loss note; entry 0.45, bid 0.40 and size 10
\* give -0.50.
C27_ExitPnl ==
    /\ exit_pnl(<<9, 20>>, <<2, 5>>, R(10)) = <<0 - 1, 2>>
    /\ (ExecutionReturned /\ BestBidQuoted) =>
          /\ ~ex.retry_filled
          /\ ex.pnl = RSub(RMul(ex.filled_book, FilledOrder(ex).size),
                           RMul(FilledOrder(ex).price, FilledOrder(ex).size))
          /\ Noted(N_CONTROLLED_LOSS)

\* C27 witness: NO alone filled at 0.3, the YES ask 0.7 left no edge, so no
\* retry was placed, and NO was valued at its best bid 0.1: pnl -2.
C27_Witness ==
    /\ ExecutionReturned
    /\ FilledLeg(ex) = "no"
    /\ ~ex.retry_attempted
    /\ ex.unfilled_book = <<7, 10>>
    /\ ex.filled_book = <<1, 10>>
    /\ ex.pnl = R(0 - 2)

\* The orders place_limit_order has placed for this execution.
PlacedOrders ==
    {o \in {ex.yes_order, ex.no_order, ex.retry_order} : o.order_id \in placed}

\* C28: whenever the execution returns with the controlled-loss note, a
\* SELL order for the filled leg's token and filled size has been placed.
C28_ExitOrderPlaced ==
    (ExecutionReturned /\ Noted(N_CONTROLLED_LOSS)) =>
        \E o \in PlacedOrders :
            /\ o.side = "SELL"
            /\ o.token_id = FilledOrder(ex).token_id
            /\ o.size = FilledOrder(ex).filled_size

\* An exchange call of the mitigation failed, or the filled leg's book had
\* no bids: the unfilled leg's book query raised, the retry's placement
\* raised, or the filled leg's book query raised or came back without bids.
MitigationFailed ==
    \/ ex.unfilled_book = BookRaises
    \/ ex.retry_attempted /\ ex.retry_order = NoOrder
    \/ ex.filled_book \in {BookRaises, BookEmpty}

\* C29: when an exchange call of the mitigation fails or the filled leg's
\* book has no bids, nothing is raised out of handle_partial_fill and the
\* retry was polled no longer than its deadline; the execution returns
\* ONE_FILLED with the assumed-loss constant, which is strictly negative,
\* and its notes carry the manual-intervention warning.
C29_MitigationFallback ==
    (ExecutionReturned /\ ex.mitigated /\ MitigationFailed) =>
        /\ ~ex.raised
        /\ ex.fill_status = ONE_FILLED
        /\ ex.pnl = assumed_loss
        /\ RLt(ex.pnl, R0)
        /\ Noted(N_ASSUMED_LOSS)
        /\ Noted(N_NAKED_WARNING)
        /\ ex.retry_elapsed <= RetryWait

\* C29 witness: the placement of the retry raised, and the call has
\* returned the assumed loss with the warning.
C29_Witness ==
    /\ ExecutionReturned
    /\ ex.retry_attempted
    /\ ex.retry_order = NoOrder
    /\ ex.filled_book = BookUnread
    /\ ex.pnl = <<0 - 1, 100>>
    /\ ex.notes = <<N_ASSUMED_LOSS, N_NAKED_WARNING, N_VALIDATION_FAILED>>

\* ------------------------------------------------------------------------
\* Properties of OrderInfo.status (Spec)
\* ------------------------------------------------------------------------

\* The statuses an order may move to from `status` (to stay is always
\* allowed): Pending -> {PartialFill, Filled, Cancelled, Failed, Expired},
\* PartialFill -> {Filled, Cancelled, Expired}, nothing out of the others.
\* OrderStatus has no FAILED or EXPIRED member; they are named for the
\* statement only.
StatusSuccessors(status) ==
    IF status = PENDING
    THEN {PENDING, PARTIAL_FILL, FILLED, CANCELLED, "failed", "expired"}
    ELSE IF status = PARTIAL_FILL
    THEN {PARTIAL_FILL, FILLED, CANCELLED, "expired"}
    ELSE {status}

\* Within one call of execute_arbitrage, the step from `before` to `after`
\* moves a leg's order along StatusSuccessors (its creation apart).
LegStepAllowed(before, after) ==
    before = NoOrder \/ after.status \in StatusSuccessors(before.status)

\* C30: within a call a leg's order status only moves Pending ->
\* {PartialFill, Filled, Cancelled, Failed, Expired} and PartialFill ->
\* {Filled, Cancelled, Expired}, a Filled (or otherwise terminal) status
\* never changes, and when the call returns TIMEOUT every leg whose order
\* the exchange cancelled has status Cancelled.
C30_OrderStatusLifecycle ==
    [][/\ ex.pc \notin {"idle", "done"} =>
            /\ LegStepAllowed(ex.yes_order, ex'.yes_order)
            /\ LegStepAllowed(ex.no_order, ex'.no_order)
       /\ (ex'.pc = "done" /\ ex'.fill_status = TIMEOUT) =>
            /\ YES_ID \in cancelled' => ex'.yes_order.status = CANCELLED
            /\ NO_ID \in cancelled' => ex'.no_order.status = CANCELLED]_vars

\* ------------------------------------------------------------------------
\* Properties of monitor_fills' bookkeeping (Spec)
\* ------------------------------------------------------------------------

\* The legs of the current execution that have an OrderInfo.
Legs == {o \in {ex.yes_order, ex.no_order} : o # NoOrder}

\* C31: during and after monitoring every leg has status FILLED exactly
\* when its filled_size equals its size, and status PARTIAL_FILL only when
\* 0 < filled_size < size, whatever the status responses were.
C31_StatusMatchesFilledSize ==
    \A o \in Legs :
        /\ (o.status = FILLED) <=> (o.filled_size = o.size)
        /\ (o.status = PARTIAL_FILL) =>
              (RLt(R0, o.filled_size) /\ RLt(o.filled_size, o.size))

\* One pass of monitor_fills' loop in which the status query of the YES
\* (NO) leg is made and fails.
YesQueryFails ==
    /\ ~ex.yes_filled
    /\ \E rn \in StatusResponses(ex.position_size), dt \in {0, 1} :
          MonitorRound(StatusError, rn, dt)

NoQueryFails ==
    /\ ~ex.no_filled
    /\ \E ry \in StatusResponses(ex.position_size), dt \in {0, 1} :
          MonitorRound(ry, StatusError, dt)

\* C32: a pass of the monitoring loop whose status query for a leg fails
\* leaves that leg's status, filled_size and remaining_size as they were,
\* raises nothing, and leaves the execution in the monitoring loop.
C32_FailedQueryChangesNothing ==
    [][/\ YesQueryFails =>
            /\ ex'.yes_order = ex.yes_order
            /\ ~ex'.raised /\ ex'.pc \in {"monitor", "validate"}
       /\ NoQueryFails =>
            /\ ex'.no_order = ex.no_order
            /\ ~ex'.raised /\ ex'.pc \in {"monitor", "validate"}]_vars

\* ------------------------------------------------------------------------
\* Properties of the warm-up phase of the sizing (SpecWarm)
\* ------------------------------------------------------------------------

\* C33: a call of get_adaptive_position_size made while the history holds
\* fewer than scaling_window outcomes and daily_pnl is above
\* emergency_stop_loss returns current_position_size and leaves
\* current_position_size, trading_enabled, daily_pnl and the history as
\* they were.
C33_WarmUpLeavesStateAlone ==
    [][(/\ last_sizing'.called
        /\ Len(risk_state.execution_history) < scaling_window
        /\ RLt(emergency_stop_loss, risk_state.daily_pnl)) =>
            /\ last_sizing'.ret = risk_state.current_position_size
            /\ risk_state'.current_position_size = risk_state.current_position_size
            /\ risk_state'.trading_enabled = risk_state.trading_enabled
            /\ risk_state'.daily_pnl = risk_state.daily_pnl
            /\ risk_state'.execution_history = risk_state.execution_history]_vars

\* C33 witness: the sizing was called with nine outcomes recorded, all of
\* them BOTH_FILLED, and returned the unchanged initial size.
C33_Witness ==
    /\ last_sizing.called
    /\ Len(risk_state.execution_history) = scaling_window - 1
    /\ \A i \in 1..(scaling_window - 1) :
           risk_state.execution_history[i].status = ES_BOTH_FILLED
    /\ last_sizing.ret = initial_position_size
    /\ risk_state.current_position_size = initial_position_size
    /\ risk_state.trading_enabled

\* ------------------------------------------------------------------------
\* Properties of failure containment (Spec, SpecWarm)
\* ------------------------------------------------------------------------

\* C34: when the monitoring timed out and the exchange refused the cancel
\* of a leg, nothing was raised, cancel_order was still called for both
\* legs, and the execution returns TIMEOUT with pnl 0.
C34_CancelFailureNotFatal ==
    (/\ ExecutionReturned
     /\ ex.monitored = TIMEOUT
     /\ {YES_ID, NO_ID} \ cancelled # {}) =>
        /\ ~ex.raised
        /\ ex.cancel_calls = {YES_ID, NO_ID}
        /\ ex.fill_status = TIMEOUT
        /\ ex.pnl = R0

\* C34 witness: a call has returned TIMEOUT after the exchange refused the
\* cancel of the YES order and accepted that of the NO order.
C34_Witness ==
    /\ ExecutionReturned
    /\ ex.fill_status = TIMEOUT
    /\ cancelled = {NO_ID}
    /\ ex.cancel_calls = {YES_ID, NO_ID}

\* C35: no step of an execution for market m, whether it fills, fails or
\* raises, changes the PositionValidator record of another market, and a
\* call of execute_arbitrage_opportunity that returns FAILED (rejected by
\* the gate, or its execution failed) leaves daily_pnl as it was.
C35_FailureScopedToMarket ==
    [][/\ \A m \in Markets :
             m # ex'.market_id => active_positions'[m] = active_positions[m]
       /\ (last_return'.returned /\ last_return'.result.status = ES_FAILED) =>
             risk_state'.daily_pnl = risk_state.daily_pnl]_vars

\* C35 witness: with m2 recorded 'naked_yes' and daily_pnl at -5, an
\* execution on m1 raised at the placement of its NO leg and was recorded
\* FAILED; m2's record and daily_pnl are as before.
C35_Witness ==
    /\ Recorded
    /\ last_return.result.status = ES_FAILED
    /\ ex.market_id = "m1"
    /\ ex.raised_at = "place_no"
    /\ active_positions["m2"] = [type |-> "naked_yes", size |-> R(10)]
    /\ risk_state.daily_pnl = R(0 - 5)
    /\ Len(risk_state.execution_history) = 2

\* ------------------------------------------------------------------------
\* Properties of the realized pnl and of the position records (Spec)
\* ------------------------------------------------------------------------

\* C36: a returned execution has a pnl other than 0 only if its
\* fill_status is ONE_FILLED, so BOTH_FILLED, TIMEOUT and failed
\* executions (token lookup or placement error) have pnl 0, and a
\* BOTH_FILLED execution leaves its market recorded 'hedged' at its size.
C36_PnlOnlyWhenOneFilled ==
    ExecutionReturned =>
        /\ ex.pnl # R0 => ex.fill_status = ONE_FILLED
        /\ ex.fill_status \in {BOTH_FILLED, TIMEOUT, NONE_FILLED} => ex.pnl = R0
        /\ ex.fill_status = BOTH_FILLED =>
              active_positions[ex.market_id] =
                  [type |-> "hedged", size |-> ex.position_size]

\* C36 witness: a second execution on m1 has returned BOTH_FILLED on a
\* market recorded 'hedged', the first having failed on m2.
C36_Witness ==
    /\ ExecutionReturned
    /\ calls = 2
    /\ ex.market_id = "m1"
    /\ ex.fill_status = BOTH_FILLED
    /\ ex.notes = <<N_BOTH_FILLED>>
    /\ active_positions["m1"].type = "hedged"
    /\ active_positions["m2"] = NoPosition

\* C37: when execute_arbitrage returns ONE_FILLED, cancel_order has been
\* called for the original order of the unfilled leg and for a retry order
\* that did not fill within its deadline, so that no unfilled order is
\* left live at the exchange.
C37_NoLiveOrderLeft ==
    (ExecutionReturned /\ ex.fill_status = ONE_FILLED
        /\ FilledLeg(ex) # "unexpected") =>
        /\ UnfilledOrder(ex).order_id \in ex.cancel_calls
        /\ (ex.retry_order # NoOrder /\ ~ex.retry_filled) =>
              RETRY_ID \in ex.cancel_calls

\* C38: a market recorded 'naked_yes' or 'naked_no' stays in
\* get_naked_positions() through every later step, later executions on
\* the same market included (no step here is a validated exit:
\* validate_exit_position has no caller).
C38_NakedRecordPersists ==
    [][\A m \in get_naked_positions(active_positions) :
          m \in get_naked_positions(active_positions')]_vars

\* C39: the pnl of every execution that execute_arbitrage returns is zero
\* or negative, whatever the entry prices and the bids of the exchange,
\* and no step raises daily_pnl.
C39_PnlNeverPositive ==
    [][/\ ex'.pc = "done" => RLe(ex'.pnl, R0)
       /\ RLe(risk_state'.daily_pnl, risk_state.daily_pnl)]_vars

\* C40: a call of execute_arbitrage_opportunity that the risk gate rejects
\* (trading disabled, or a resolved size <= 0) leaves execution_history,
\* daily_pnl, execution_logs, execution_counter and every PositionValidator
\* record as they were; trading_enabled and current_position_size are the
\* only fields it may change.
C40_RejectionChangesOnlyGate ==
    [][(last_return'.returned /\ ~last_return'.contacted) =>
          /\ risk_state'.execution_history = risk_state.execution_history
          /\ risk_state'.daily_pnl = risk_state.daily_pnl
          /\ execution_logs' = execution_logs
          /\ execution_counter' = execution_counter
          /\ active_positions' = active_positions]_vars

\* Reached: a call made with trading enabled and daily_pnl at the stop loss
\* has been rejected by the sizing call, which disabled trading, while m2
\* holds a naked record and the ledger has an entry.
C40_Witness ==
    /\ last_return.returned
    /\ ~last_return.contacted
    /\ last_return.enabled_at_call
    /\ ~risk_state.trading_enabled
    /\ last_return.result = RejectZeroSize
    /\ active_positions["m2"].type = "naked_yes"
    /\ Len(risk_state.execution_history) = 1
    /\ Len(execution_logs) = 1
    /\ RLe(risk_state.daily_pnl, emergency_stop_loss)

====
